---- MODULE Spec2Model ----
(***************************************************************************)
(* The Spotify stakeholder dashboard: eight Streamlit scripts (src/app.py  *)
(* and the seven revisions kept in src/unnamed/part_000).  A script is     *)
(* re-run from its first line on every widget interaction; what survives   *)
(* from one re-run to the next is the st.cache_data memo of the two CSV    *)
(* files and the values of the widgets.                                    *)
(***************************************************************************)
EXTENDS Integers, Sequences, FiniteSets, TLC

VARIABLES
    ver,            \* which of the eight scripts is served
    spotify_csv,    \* the rows of spotify.csv, every cell a text
    campaign_csv,   \* the rows of marketing_campaigns.csv, every cell a text
    memo,           \* st.cache_data: what each loader has memoized
    reads,          \* how often each file was read from disk
    page,           \* value of the navigation radio
    sel,            \* values of the global multiselect widgets
    spotify_df,     \* script variable spotify_df (df in app.py) after the run
    campaign_df,    \* script variable campaign_df after the run
    loaded_df,      \* the frame load_campaigns() handed to this run, after the run
    df,             \* script variable df / filtered_df / cdf after the run
    kpi,            \* what the KPI row showed
    reached,        \* the sections of the page the run got through
    err,            \* the exception that ended the run, or "none"
    charts,         \* the tables the run handed to the charts
    first_out,      \* history: the first run of each page, its widget values and what it showed
    touched,        \* history: the user has changed a multiselect
    other,          \* a second browser session served by the same process
    map_streams,    \* map_df.streams: the grouped stream totals behind the map
    q75,            \* script variable q75
    q40,            \* script variable q40
    market_signal,  \* map_df["market_signal"], one label per row of map_df
    probe,          \* a value handed to classify, with the label it got
    artist_streams, \* df.groupby("artist_name").streams.sum().reset_index()
    artist_limit,   \* value of the artist_limit slider (the fixed 10 or 5 elsewhere)
    v1,             \* script variable v1 / artist_df / drill_df, once computed
    local           \* a visual's own selectbox, its value and the rows it kept

dashvars == <<ver, spotify_csv, campaign_csv, memo, reads, page, sel,
              spotify_df, campaign_df, loaded_df, df, kpi, reached, err, charts,
              first_out, touched, other>>

mapvars == <<map_streams, q75, q40, market_signal, probe>>

topvars == <<artist_streams, artist_limit, v1>>

vars == <<dashvars, mapvars, topvars, local>>

----------------------------------------------------------------------------
(* Bounds of the model *)

MaxRows == 2

(* The longest stream column of the map table. *)
MaxVals == 4

----------------------------------------------------------------------------
(* Cell values.  A cell of a frame is a number, a text or the missing       *)
(* marker NaN.                                                              *)

Num(n) == [k |-> "num", n |-> n, s |-> ""]
Str(s) == [k |-> "str", n |-> 0, s |-> s]
NaN == [k |-> "nan", n |-> 0, s |-> ""]
None == [k |-> "none", n |-> 0, s |-> ""]

IsNum(c) == c.k = "num"
IsNaN(c) == c.k = "nan"

(* Lexicographic order of the texts of the model, as Python compares str.  *)
Lex == <<"Adele", "Brazil", "Drake", "EU", "Feb", "France", "Free", "Germany",
         "Jan", "Pop", "Premium", "Rock", "Summer", "US", "Winter">>

Rank(s) == CHOOSE i \in 1..Len(Lex) : Lex[i] = s

----------------------------------------------------------------------------
(* The two files.  A file is a sequence of rows of texts.                   *)

StreamCols == {"region", "genre", "subscription_type", "month",
               "artist_name", "country", "streams", "active_listeners"}

SRow(r, g, s, m, a, c, st, al) ==
    [region |-> Str(r), genre |-> Str(g), subscription_type |-> Str(s),
     month |-> Str(m), artist_name |-> Str(a), country |-> Str(c),
     streams |-> Str(st), active_listeners |-> Str(al)]

StreamPool ==
    { SRow("US", "Pop", "Premium", "Jan", "Adele", "Germany", "100", "5"),
      SRow("US", "Rock", "Free", "Feb", "Drake", "France", "50", "0"),
      SRow("EU", "Pop", "Free", "Jan", "Drake", "Brazil", "100", "3") }

CampaignCols == {"campaign_name", "target_region", "target_genre", "month",
                 "users_before", "users_after", "net_user_gain",
                 "user_growth_pct", "premium_growth_pct"}

CRow(c, r, g, m, ub, ua, gain, ug, pg) ==
    [campaign_name |-> Str(c), target_region |-> Str(r), target_genre |-> Str(g),
     month |-> Str(m), users_before |-> Str(ub), users_after |-> Str(ua),
     net_user_gain |-> Str(gain), user_growth_pct |-> Str(ug),
     premium_growth_pct |-> Str(pg)]

(* The third row has an unparseable users_before, the fourth an empty      *)
(* target_genre and an unparseable net_user_gain, the fifth an empty       *)
(* target_genre only.                                                       *)
CampaignPool ==
    { CRow("Summer", "US", "Pop", "Jan", "100", "120", "20", "20", "5"),
      CRow("Winter", "EU", "Rock", "Feb", "100", "95", "-5", "-5", "2"),
      CRow("Summer", "EU", "Pop", "Feb", "n/a", "80", "30", "10", "4"),
      CRow("Winter", "US", "", "Jan", "50", "60", "abc", "20", "3"),
      CRow("Summer", "US", "", "Feb", "50", "60", "10", "20", "5") }

(* The files of at most n rows over a pool of rows. *)
Files(pool, n) == UNION { [1..k -> pool] : k \in 0..n }

----------------------------------------------------------------------------
(* pandas: read_csv, unique, isin, boolean indexing, to_numeric, dropna.    *)

(* The numbers the texts of the model denote. *)
NumText == ("0" :> 0) @@ ("2" :> 2) @@ ("3" :> 3) @@ ("4" :> 4) @@ ("5" :> 5)
           @@ ("10" :> 10) @@ ("20" :> 20) @@ ("30" :> 30) @@ ("50" :> 50)
           @@ ("60" :> 60) @@ ("80" :> 80) @@ ("95" :> 95) @@ ("100" :> 100)
           @@ ("120" :> 120) @@ ("-5" :> -5)

IsNumText(s) == s \in DOMAIN NumText

(* read_csv infers a column's type from all its cells: a column of numeric *)
(* texts (empty cells aside) is numeric, any other column keeps its texts;  *)
(* an empty cell is NaN.  The rows are labelled 0, 1, ...                  *)
NumericCol(file, c) ==
    \A i \in 1..Len(file) : file[i][c].s = "" \/ IsNumText(file[i][c].s)

ReadCell(file, c, cell) ==
    IF cell.s = "" THEN NaN
    ELSE IF NumericCol(file, c) THEN Num(NumText[cell.s])
    ELSE cell

read_csv(file, cols) ==
    [i \in 1..Len(file) |->
        [c \in cols \cup {"idx"} |->
            IF c = "idx" THEN Num(i - 1) ELSE ReadCell(file, c, file[i][c])]]

(* Series.unique() as a set: the distinct cells of a column. *)
unique(T, c) == { T[i][c] : i \in 1..Len(T) }

(* Series.unique() as pandas returns it: in order of first appearance. *)
UniqueSeq(T, c) ==
    LET F[i \in 0..Len(T)] ==
            IF i = 0 THEN <<>>
            ELSE IF \E j \in 1..Len(F[i - 1]) : F[i - 1][j] = T[i][c] THEN F[i - 1]
            ELSE Append(F[i - 1], T[i][c])
    IN F[Len(T)]

(* isin taken as "no selection, no constraint". *)
isin_empty_is_all(T, c, values) ==
    [i \in 1..Len(T) |-> values = {} \/ T[i][c] \in values]

(* isin taken as equality with one of the values. *)
isin_one_value(T, c, values) ==
    [i \in 1..Len(T) |-> values # {} /\ T[i][c] = (CHOOSE x \in values : TRUE)]

(* Series.isin(values): one boolean per row. *)
isin(T, c, values) == [i \in 1..Len(T) |-> T[i][c] \in values]

(* mask | mask *)
MaskOr(m1, m2) == [i \in DOMAIN m1 |-> m1[i] \/ m2[i]]

(* mask & mask *)
MaskAnd(m1, m2) == [i \in DOMAIN m1 |-> m1[i] /\ m2[i]]

(* Series == value: one boolean per row (NaN and None equal nothing). *)
EqMask(T, c, v) ==
    [i \in 1..Len(T) |-> v.k \notin {"nan", "none"} /\ T[i][c] = v]

(* frame[mask] losing the first row of the frame. *)
BoolIndex_from_second(T, mask) ==
    LET F[i \in 0..Len(T)] ==
            IF i <= 1 THEN <<>>
            ELSE IF mask[i] THEN Append(F[i - 1], T[i]) ELSE F[i - 1]
    IN F[Len(T)]

(* frame[mask]: a new frame of the rows whose mask is true, in order. *)
BoolIndex(T, mask) ==
    LET F[i \in 0..Len(T)] ==
            IF i = 0 THEN <<>>
            ELSE IF mask[i] THEN Append(F[i - 1], T[i]) ELSE F[i - 1]
    IN F[Len(T)]

(* A coercion that turns an unparseable text into 0. *)
to_numeric_zero(cell) ==
    IF cell.k = "str"
        THEN IF IsNumText(cell.s) THEN Num(NumText[cell.s]) ELSE Num(0)
        ELSE cell

(* pd.to_numeric(series, errors="coerce"), cell by cell. *)
to_numeric(cell) ==
    IF cell.k = "str"
        THEN IF IsNumText(cell.s) THEN Num(NumText[cell.s]) ELSE NaN
        ELSE cell

(* frame[c] = pd.to_numeric(frame[c], errors="coerce") for c in cols. *)
Coerce(T, cols) ==
    [i \in 1..Len(T) |->
        [c \in DOMAIN T[i] |-> IF c \in cols THEN to_numeric(T[i][c]) ELSE T[i][c]]]

(* frame.dropna(subset=cols): the rows with no NaN in cols. *)
dropna(T, cols) ==
    BoolIndex(T, [i \in 1..Len(T) |-> \A c \in cols : ~IsNaN(T[i][c])])

(* Series.sum(): NaN cells are skipped. *)
Sum(T, c) ==
    LET F[i \in 0..Len(T)] ==
            IF i = 0 THEN 0
            ELSE F[i - 1] + (IF IsNum(T[i][c]) THEN T[i][c].n ELSE 0)
    IN F[Len(T)]


(* A non-empty set of texts as a sequence in sorted order. *)
Sorted(S) ==
    CHOOSE q \in [1..Cardinality(S) -> S] :
        \A i, j \in 1..Cardinality(S) : i < j => Rank(q[i].s) < Rank(q[j].s)

(* frame.groupby(key)[val].sum(): one entry per key that occurs (NaN keys   *)
(* are left out), in sorted key order.                                      *)
GroupSum(T, key, val) ==
    LET keys == { c \in unique(T, key) : ~IsNaN(c) }
        q == Sorted(keys)
    IN [i \in 1..Cardinality(keys) |->
            [key |-> q[i], value |-> Sum(BoolIndex(T, EqMask(T, key, q[i])), val)]]

(* The key of a row under a list of group columns. *)
KeyOf(row, keys) == [j \in 1..Len(keys) |-> row[keys[j]]]

KeyLess(a, b) ==
    \E j \in 1..Len(a) :
        /\ \A k \in 1..(j - 1) : a[k] = b[k]
        /\ Rank(a[j].s) < Rank(b[j].s)

(* Every combination of the values of the group columns. *)
GroupKeys_product(T, keys) ==
    { k \in [1..Len(keys) -> UNION { unique(T, keys[j]) : j \in 1..Len(keys) }] :
        \A j \in 1..Len(keys) : k[j] \in unique(T, keys[j]) /\ ~IsNaN(k[j]) }

(* The keys that occur under a list of group columns; a row with NaN in a  *)
(* group column belongs to no group.                                        *)
GroupKeys(T, keys) ==
    { k \in { KeyOf(T[i], keys) : i \in 1..Len(T) } :
        \A j \in 1..Len(keys) : ~IsNaN(k[j]) }

SortedKeys(S) ==
    CHOOSE q \in [1..Cardinality(S) -> S] :
        \A i, j \in 1..Cardinality(S) : i < j => KeyLess(q[i], q[j])

KeyMask(T, keys, k) == [i \in 1..Len(T) |-> KeyOf(T[i], keys) = k]

(* Each group reduced to the value of its first row. *)
GroupRows_first(T, keys, val, q) ==
    [i \in 1..Len(q) |->
        [key |-> q[i],
         value |-> Sum(SubSeq(BoolIndex(T, KeyMask(T, keys, q[i])), 1, 1), val)]]

GroupRows(T, keys, val, q) ==
    [i \in 1..Len(q) |->
        [key |-> q[i], value |-> Sum(BoolIndex(T, KeyMask(T, keys, q[i])), val)]]

(* frame.groupby([k1, k2, ...])[val].sum().reset_index(): one row per key   *)
(* combination that occurs, in sorted key order.                            *)
GroupSumBy(T, keys, val) == GroupRows(T, keys, val, SortedKeys(GroupKeys(T, keys)))

(* The label of the first smallest entry. *)
idxmin(series) ==
    IF Len(series) = 0
        THEN [raised |-> TRUE, value |-> None]
        ELSE LET i == CHOOSE i \in 1..Len(series) :
                        /\ \A j \in 1..Len(series) : series[j].value >= series[i].value
                        /\ \A j \in 1..(i - 1) : series[j].value > series[i].value
             IN [raised |-> FALSE, value |-> series[i].key]

(* The label of the last largest entry. *)
idxmax_last(series) ==
    IF Len(series) = 0
        THEN [raised |-> TRUE, value |-> None]
        ELSE LET i == CHOOSE i \in 1..Len(series) :
                        /\ \A j \in 1..Len(series) : series[j].value <= series[i].value
                        /\ \A j \in (i + 1)..Len(series) : series[j].value < series[i].value
             IN [raised |-> FALSE, value |-> series[i].key]

(* Series.idxmax(): the label of the first largest entry; an empty series   *)
(* raises ValueError.                                                       *)
idxmax(series) ==
    IF Len(series) = 0
        THEN [raised |-> TRUE, value |-> None]
        ELSE LET i == CHOOSE i \in 1..Len(series) :
                        /\ \A j \in 1..Len(series) : series[j].value <= series[i].value
                        /\ \A j \in 1..(i - 1) : series[j].value < series[i].value
             IN [raised |-> FALSE, value |-> series[i].key]

----------------------------------------------------------------------------
(* The scripts. *)

Versions == {"app", "v9", "v10", "v11", "v13", "v15", "v16", "v17"}

Streaming == "Streaming Performance"
Campaign == "Marketing Campaign Impact"

(* app.py has one page and no navigation radio. *)
Pages(v) == IF v = "app" THEN {Streaming} ELSE {Streaming, Campaign}

(* The column each global multiselect filters. *)
KeyCol == [region |-> "region", genre |-> "genre",
           subscription |-> "subscription_type", month |-> "month",
           campaign |-> "campaign_name", target_region |-> "target_region",
           campaign_month |-> "month"]

StreamKeys(v) ==
    CASE v \in {"v16", "v17"} -> {"region", "subscription", "month"}
      [] v = "v15" -> {}
      [] OTHER -> {"region", "genre", "subscription", "month"}

CampaignKeys(v) ==
    CASE v = "app" -> {}
      [] v = "v9" -> {"campaign", "target_region"}
      [] OTHER -> {"campaign", "target_region", "campaign_month"}

(* A loader that is not memoized: every call reads the file. *)
cache_data_uncached(entry, file, cols) ==
    [value |-> read_csv(file, cols), entry |-> <<read_csv(file, cols)>>, read |-> 1]

(* @st.cache_data on a loader: the first call reads the file and stores the *)
(* frame; every call returns a copy of the stored frame.                   *)
cache_data(entry, file, cols) ==
    IF entry = <<>>
        THEN [value |-> read_csv(file, cols), entry |-> <<read_csv(file, cols)>>, read |-> 1]
        ELSE [value |-> entry[1], entry |-> entry, read |-> 0]

(* A memo that hands out the stored frame itself: what the run did to the   *)
(* frame is in the memo.                                                    *)
MemoAfterRun_shared(entry, frame) == <<frame>>

(* What the memo holds after the run changed the frame it was handed: the   *)
(* run worked on its copy, the stored frame stays.                          *)
MemoAfterRun(entry, frame) == entry

num_cols == {"users_before", "users_after", "net_user_gain",
             "user_growth_pct", "premium_growth_pct"}

(* The offset added to the signed value. *)
abs_user_gain_signed(cell) ==
    IF IsNum(cell) THEN Num(cell.n + 10) ELSE NaN

(* campaign_df["abs_user_gain"] = campaign_df["net_user_gain"].abs() + 10 *)
abs_user_gain(cell) ==
    IF IsNum(cell) THEN Num((IF cell.n < 0 THEN -cell.n ELSE cell.n) + 10) ELSE NaN

AddSizeColumn(T) ==
    [i \in 1..Len(T) |->
        [c \in DOMAIN T[i] \cup {"abs_user_gain"} |->
            IF c = "abs_user_gain" THEN abs_user_gain(T[i]["net_user_gain"]) ELSE T[i][c]]]

(* The statements between the loaders and the header.  loaded is the frame  *)
(* load_campaigns() returned, as these statements leave it; campaign_df is  *)
(* what the name is bound to afterwards.                                    *)
CleanUp(v, frame) ==
    CASE v = "v11" ->
            [loaded |-> Coerce(frame, num_cols), campaign_df |-> Coerce(frame, num_cols)]
      [] v = "v13" ->
            [loaded |-> Coerce(frame, num_cols),
             campaign_df |-> AddSizeColumn(dropna(Coerce(frame, num_cols),
                                {"user_growth_pct", "premium_growth_pct", "net_user_gain"}))]
      [] v \in {"v15", "v16"} ->
            [loaded |-> Coerce(frame, num_cols),
             campaign_df |-> dropna(Coerce(frame, num_cols), CampaignCols)]
      [] OTHER -> [loaded |-> frame, campaign_df |-> frame]

(* A multiselect that never gives back an option once deselected. *)
multiselect_sticky(s, key) == s[key] \cap sel[key]

(* st.multiselect(label, options, default): the widget's value, which Init  *)
(* and the cleanup of unrendered widgets set to the default.               *)
multiselect(s, key) == s[key]

(* The mask of the global streaming filter. *)
StreamMask(v, T, s) ==
    IF v \in {"v16", "v17"}
        THEN MaskAnd(MaskAnd(isin(T, "region", multiselect(s, "region")),
                             isin(T, "subscription_type", multiselect(s, "subscription"))),
                     isin(T, "month", multiselect(s, "month")))
        ELSE MaskAnd(MaskAnd(MaskAnd(isin(T, "region", multiselect(s, "region")),
                                     isin(T, "genre", multiselect(s, "genre"))),
                             isin(T, "subscription_type", multiselect(s, "subscription"))),
                     isin(T, "month", multiselect(s, "month")))

(* The mask of the campaign filter. *)
CampaignMask(v, T, s) ==
    IF v = "v9"
        THEN MaskAnd(isin(T, "campaign_name", multiselect(s, "campaign")),
                     isin(T, "target_region", multiselect(s, "target_region")))
        ELSE MaskAnd(MaskAnd(isin(T, "campaign_name", multiselect(s, "campaign")),
                             isin(T, "target_region", multiselect(s, "target_region"))),
                     isin(T, "month", multiselect(s, "campaign_month")))

(* The filter done in place: the frame indexed loses the rows too. *)
FilterStmt_inplace(T, mask) == [src |-> BoolIndex(T, mask), out |-> BoolIndex(T, mask)]

(* df = spotify_df[mask]: the frame indexed and the new frame. *)
FilterStmt(T, mask) == [src |-> T, out |-> BoolIndex(T, mask)]


----------------------------------------------------------------------------
(* Floats of the KPI rows: an exact fraction num/den, infinite when den is  *)
(* 0, or nan.                                                               *)

Ratio(n, d) == [nan |-> FALSE, num |-> n, den |-> d]
FloatNaN == [nan |-> TRUE, num |-> 0, den |-> 1]

(* numpy's a / b on two sums: 0/0 is nan and x/0 is infinite, neither      *)
(* raises.                                                                  *)
TrueDiv(a, b) == IF b = 0 /\ a = 0 THEN FloatNaN ELSE Ratio(a, b)

Times100(x) == IF x.nan THEN x ELSE Ratio(x.num * 100, x.den)

(* round(x, 1): to the nearest tenth, a half to the even tenth. *)
Round1(x) ==
    IF x.nan \/ x.den = 0 THEN x
    ELSE LET q == (x.num * 10) \div x.den
             r == (x.num * 10) % x.den
             up == (2 * r > x.den) \/ (2 * r = x.den /\ q % 2 = 1)
         IN Ratio(IF up THEN q + 1 ELSE q, 10)

(* Series.mean(): NaN cells are skipped; nan when nothing is left. *)
Mean(T, c) ==
    LET n == Cardinality({ i \in 1..Len(T) : IsNum(T[i][c]) })
    IN IF n = 0 THEN FloatNaN ELSE Ratio(Sum(T, c), n)

----------------------------------------------------------------------------
(* The KPI rows. *)

NoKpi == [shown |-> FALSE]

(* The "Top Artist" card. *)
top_artist(v, T) ==
    IF v = "app"
        THEN IF Len(T) # 0
                THEN idxmax(GroupSum(T, "artist_name", "streams"))
                ELSE [raised |-> FALSE, value |-> Str("N/A")]
        ELSE idxmax(GroupSum(T, "artist_name", "streams"))

(* The "Premium Share" card. *)
PremiumShareOf(v, premium, active_users) ==
    IF v = "app"
        THEN IF active_users > 0
                THEN Times100(TrueDiv(premium, active_users))
                ELSE Ratio(0, 1)
        ELSE Round1(Times100(TrueDiv(premium, active_users)))

premium_share(v, T) ==
    PremiumShareOf(v,
        Sum(BoolIndex(T, EqMask(T, "subscription_type", Str("Premium"))), "active_listeners"),
        Sum(T, "active_listeners"))

StreamKpi(v, T, top) ==
    [shown |-> TRUE,
     total_streams |-> Sum(T, "streams"),
     active_listeners |-> Sum(T, "active_listeners"),
     top_artist |-> top.value,
     premium_share |-> premium_share(v, T)]

HasText(T, c) == \E i \in 1..Len(T) : T[i][c].k = "str"

(* The campaign KPI row.  Summing or averaging a column of texts and       *)
(* formatting the result as a number raises.                                *)
CampaignKpiRaises(T) ==
    \/ HasText(T, "net_user_gain")
    \/ HasText(T, "user_growth_pct")
    \/ HasText(T, "premium_growth_pct")

CampaignKpi(T) ==
    [shown |-> TRUE,
     net_user_gain |-> Sum(T, "net_user_gain"),
     user_growth_pct |-> Mean(T, "user_growth_pct"),
     premium_growth_pct |-> Mean(T, "premium_growth_pct")]

----------------------------------------------------------------------------
(* The tables behind the charts.  A chart is drawn by plotly from the      *)
(* table it is handed; the model keeps the table.                          *)

NoCharts == [by_artist |-> <<>>, by_region_genre |-> <<>>, by_month |-> <<>>,
             by_subscription |-> <<>>, by_month_campaign |-> <<>>,
             by_target_genre |-> <<>>, by_campaign |-> <<>>, sizes |-> <<>>]

(* The grouped tables each script computes from the filtered frame alone.  *)
StreamTables(v) ==
    CASE v = "app" -> {"by_artist", "by_region_genre", "by_month"}
      [] v = "v9" -> {"by_artist", "by_month"}
      [] v = "v10" -> {"by_artist"}
      [] v = "v15" -> {}
      [] OTHER -> {"by_artist", "by_subscription"}

CampaignTables(v) ==
    CASE v = "app" -> {}
      [] v = "v9" -> {"by_month_campaign"}
      [] v \in {"v10", "v11", "v13"} -> {"by_month_campaign", "by_target_genre"}
      [] OTHER -> {"by_campaign", "by_target_genre"}

(* The keys and the value column of each grouped table. *)
TableKeys == [by_artist |-> <<"artist_name">>,
              by_region_genre |-> <<"region", "genre">>,
              by_month |-> <<"month">>,
              by_subscription |-> <<"subscription_type">>,
              by_month_campaign |-> <<"month", "campaign_name">>,
              by_target_genre |-> <<"target_genre">>,
              by_campaign |-> <<"campaign_name">>]

TableValue(t) == IF t \in {"by_month_campaign", "by_target_genre", "by_campaign"}
                     THEN "net_user_gain" ELSE "streams"

Grouped(tables, T) ==
    [t \in DOMAIN TableKeys |->
        IF t \in tables THEN GroupSumBy(T, TableKeys[t], TableValue(t)) ELSE <<>>]

(* The column px.scatter is given as size. *)
size_column(v) == IF v = "v13" THEN "abs_user_gain" ELSE "net_user_gain"

HasScatter(v) == v \in {"v10", "v11", "v13"}

ScatterSizes(v, T) ==
    IF HasScatter(v) THEN [i \in 1..Len(T) |-> T[i][size_column(v)]] ELSE <<>>

(* plotly rejects a marker size that is not a number >= 0. *)
ScatterRaises(sizes) ==
    \E i \in 1..Len(sizes) : ~(IsNum(sizes[i]) /\ sizes[i].n >= 0)

WithSizes(grouped, sizes) ==
    [t \in DOMAIN NoCharts |-> IF t = "sizes" THEN sizes ELSE grouped[t]]

StreamCharts(v, T) == WithSizes(Grouped(StreamTables(v), T), <<>>)

CampaignCharts(v, T) == WithSizes(Grouped(CampaignTables(v), T), ScatterSizes(v, T))

----------------------------------------------------------------------------
(* The market signal of the map (app (17).py).  Quantiles are kept as      *)
(* exact fractions.                                                         *)

Insert(sorted, x) ==
    LET k == Cardinality({ i \in 1..Len(sorted) : sorted[i] <= x })
    IN SubSeq(sorted, 1, k) \o <<x>> \o SubSeq(sorted, k + 1, Len(sorted))

SortInts(seq) ==
    LET F[i \in 0..Len(seq)] == IF i = 0 THEN <<>> ELSE Insert(F[i - 1], seq[i])
    IN F[Len(seq)]

(* The qn/qd quantile of a sorted non-empty column, linear interpolation    *)
(* between the two entries around position (n - 1) * qn/qd.                *)
QuantileOfSorted(sorted, qn, qd) ==
    LET pos == (Len(sorted) - 1) * qn
        lo == pos \div qd
        fr == pos % qd
    IN IF fr = 0
          THEN Ratio(sorted[lo + 1] * qd, qd)
          ELSE Ratio(sorted[lo + 1] * qd + fr * (sorted[lo + 2] - sorted[lo + 1]), qd)

(* The quantile counted from the top of the column. *)
quantile_from_top(seq, qn, qd) == QuantileOfSorted(SortInts(seq), qd - qn, qd)

(* Series.quantile(qn/qd) *)
quantile(seq, qn, qd) == QuantileOfSorted(SortInts(seq), qn, qd)

(* a >= b on fractions of positive denominator. *)
GE(a, b) == a.num * b.den >= b.num * a.den

(* A classification whose bounds are exclusive. *)
classify_strict(x, hi, lo) ==
    IF ~GE(hi, x) THEN "High"
    ELSE IF ~GE(lo, x) THEN "Moderate"
    ELSE "Low"

(* def classify(x), with the q75 and q40 it closes over. *)
classify(x, hi, lo) ==
    IF GE(x, hi) THEN "High"
    ELSE IF GE(x, lo) THEN "Moderate"
    ELSE "Low"

(* map_df["market_signal"] = map_df.streams.apply(classify) *)
ApplyClassify(streams, hi, lo) ==
    [i \in 1..Len(streams) |-> classify(Ratio(streams[i], 1), hi, lo)]

----------------------------------------------------------------------------
(* The pages. *)

Sections(v, pg) ==
    IF pg = Streaming
        THEN CASE v = "v15" -> <<"info">>
               [] v = "v9" -> <<"filters", "kpi", "visual1", "visual2">>
               [] v = "v17" -> <<"filters", "kpi", "visual1", "visual2", "drilldown", "visual4">>
               [] OTHER -> <<"filters", "kpi", "visual1", "visual2", "visual3", "visual4">>
        ELSE CASE v = "v9" -> <<"filters", "kpi", "visual1", "visual2">>
               [] OTHER -> <<"filters", "kpi", "visual1", "visual2", "visual3", "visual4">>

(* The page from the filter statement's outcome f on. *)
StreamingFrom(v, f, top) ==
    IF top.raised
        THEN [src |-> f.src, df |-> f.out, kpi |-> NoKpi, charts |-> NoCharts,
              reached |-> <<"filters">>, err |-> "ValueError"]
        ELSE [src |-> f.src, df |-> f.out, kpi |-> StreamKpi(v, f.out, top),
              charts |-> StreamCharts(v, f.out),
              reached |-> Sections(v, Streaming), err |-> "none"]

StreamingFiltered(v, f) == StreamingFrom(v, f, top_artist(v, f.out))

StreamingPage(v, T, s) ==
    IF v = "v15"
        THEN [src |-> T, df |-> <<>>, kpi |-> NoKpi, charts |-> NoCharts,
              reached |-> Sections(v, Streaming), err |-> "none"]
        ELSE StreamingFiltered(v, FilterStmt(T, StreamMask(v, T, s)))

(* The campaign page from the KPI row on; the scatter is its last visual. *)
CampaignFrom(v, f, ch) ==
    IF ScatterRaises(ch.sizes)
        THEN [src |-> f.src, df |-> f.out, kpi |-> CampaignKpi(f.out), charts |-> ch,
              reached |-> <<"filters", "kpi", "visual1", "visual2", "visual3">>,
              err |-> "ValueError"]
        ELSE [src |-> f.src, df |-> f.out, kpi |-> CampaignKpi(f.out), charts |-> ch,
              reached |-> Sections(v, Campaign), err |-> "none"]

CampaignFiltered(v, f) ==
    IF CampaignKpiRaises(f.out)
        THEN [src |-> f.src, df |-> f.out, kpi |-> NoKpi, charts |-> NoCharts,
              reached |-> <<"filters">>, err |-> "TypeError"]
        ELSE CampaignFrom(v, f, CampaignCharts(v, f.out))

CampaignPage(v, T, s) == CampaignFiltered(v, FilterStmt(T, CampaignMask(v, T, s)))

Keys == DOMAIN KeyCol

(* The keys of the widgets a run of page pg renders. *)
Rendered(v, pg) == IF pg = Streaming THEN StreamKeys(v) ELSE CampaignKeys(v)

(* The default of every multiselect: all distinct values of its column. *)
Defaults(v, sp, cp) ==
    [key \in Keys |->
        IF key \in StreamKeys(v) THEN unique(sp, KeyCol[key])
        ELSE IF key \in CampaignKeys(v) THEN unique(cp, KeyCol[key])
        ELSE {}]

(* A widget without key= is identified by its type, label, options and     *)
(* default.  Both pages call st.multiselect("Month", <months>, <months>):   *)
(* when the two tables list the same months in the same order the two       *)
(* calls are one widget, with one value.                                    *)
MonthShared(v, sp, cp) ==
    /\ "month" \in StreamKeys(v)
    /\ "campaign_month" \in CampaignKeys(v)
    /\ UniqueSeq(sp, "month") = UniqueSeq(cp, "month")

(* Streamlit drops the value of a widget a run did not render: the widget   *)
(* starts from its default when it is rendered again.  The Month widget of  *)
(* the other page, when it is the same widget, was rendered.                *)
Cleanup(v, pg, s, defaults, shared) ==
    [key \in Keys |->
        IF key \in Rendered(v, pg) THEN s[key]
        ELSE IF shared /\ key = "campaign_month" /\ pg = Streaming THEN s["month"]
        ELSE IF shared /\ key = "month" /\ pg = Campaign THEN s["campaign_month"]
        ELSE defaults[key]]

(* One run of the script from its first line, on page pg with the widget    *)
(* values s and the memo m: sp and cp are what the loaders returned, cl     *)
(* what the clean-up left, pr what the page did.                            *)
ScriptEnd(v, pg, s, sp, cp, cl, pr) ==
    [memo |-> [spotify |-> MemoAfterRun(sp.entry,
                              IF pg = Streaming THEN pr.src ELSE sp.value),
               campaign |-> MemoAfterRun(cp.entry, cl.loaded)],
     read |-> [spotify |-> sp.read, campaign |-> cp.read],
     spotify_df |-> IF pg = Streaming THEN pr.src ELSE sp.value,
     campaign_df |-> IF pg = Campaign THEN pr.src ELSE cl.campaign_df,
     loaded_df |-> cl.loaded,
     sel |-> Cleanup(v, pg, s, Defaults(v, sp.value, cl.campaign_df),
                     MonthShared(v, sp.value, cl.campaign_df)),
     out |-> [df |-> pr.df, kpi |-> pr.kpi, charts |-> pr.charts,
              reached |-> pr.reached, err |-> pr.err]]

ScriptPage(v, pg, s, sp, cp, cl) ==
    ScriptEnd(v, pg, s, sp, cp, cl,
              IF pg = Streaming THEN StreamingPage(v, sp.value, s)
              ELSE CampaignPage(v, cl.campaign_df, s))

ScriptLoaded(v, pg, s, sp, cp) == ScriptPage(v, pg, s, sp, cp, CleanUp(v, cp.value))

Script(v, m, pg, s) ==
    ScriptLoaded(v, pg, s,
        cache_data(m.spotify, spotify_csv, StreamCols),
        IF v = "app" THEN [value |-> <<>>, entry |-> m.campaign, read |-> 0]
        ELSE cache_data(m.campaign, campaign_csv, CampaignCols))

----------------------------------------------------------------------------
(* The session. *)

(* The files the model is checked on: every streaming file of at most       *)
(* MaxRows rows beside a one-row campaign file, and every campaign file of  *)
(* at most MaxRows rows beside a one-row streaming file.  app.py reads no   *)
(* campaign file.                                                           *)
OneStream == <<SRow("US", "Pop", "Premium", "Jan", "Adele", "Germany", "100", "5")>>
OneCampaign == <<CRow("Summer", "US", "Pop", "Jan", "100", "120", "20", "20", "5")>>

FilePairs(v) ==
    IF v = "app"
        THEN { <<f, <<>>>> : f \in Files(StreamPool, MaxRows) }
        ELSE { <<f, OneCampaign>> : f \in Files(StreamPool, MaxRows) }
             \cup { <<OneStream, f>> : f \in Files(CampaignPool, MaxRows) }

NoOut == [p \in {Streaming, Campaign} |-> <<>>]

(* A session that has not run the script yet: every widget at its default. *)
OtherFresh(defaults) ==
    [pc |-> "idle", started |-> FALSE, page |-> Streaming, sel |-> defaults,
     got |-> [spotify |-> <<>>, campaign |-> <<>>],
     spotify_df |-> <<>>, campaign_df |-> <<>>,
     out |-> [df |-> <<>>, kpi |-> NoKpi, charts |-> NoCharts,
              reached |-> <<>>, err |-> "none"]]

(* No visual with a selectbox of its own drawn. *)
LocalIdle == [ran |-> FALSE, widget |-> <<>>, value |-> None, rows |-> <<>>,
              err |-> "none"]

(* No ranking drawn: the series is empty and the slider at its default. *)
TopIdle ==
    /\ artist_streams = <<>>
    /\ artist_limit = 10
    /\ v1 = <<>>
    /\ local = LocalIdle

(* No map drawn. *)
MapIdle ==
    /\ map_streams = <<>>
    /\ q75 = Ratio(0, 1)
    /\ q40 = Ratio(0, 1)
    /\ market_signal = <<>>
    /\ probe = <<>>

Init ==
    /\ ver \in Versions
    /\ \E fp \in FilePairs(ver) : spotify_csv = fp[1] /\ campaign_csv = fp[2]
    /\ memo = [spotify |-> <<>>, campaign |-> <<>>]
    /\ reads = [spotify |-> 0, campaign |-> 0]
    /\ page = Streaming
    /\ sel = Defaults(ver, read_csv(spotify_csv, StreamCols),
                      CleanUp(ver, read_csv(campaign_csv, CampaignCols)).campaign_df)
    /\ spotify_df = <<>>
    /\ campaign_df = <<>>
    /\ loaded_df = <<>>
    /\ df = <<>>
    /\ kpi = NoKpi
    /\ reached = <<>>
    /\ err = "none"
    /\ charts = NoCharts
    /\ first_out = NoOut
    /\ touched = FALSE
    /\ other = OtherFresh(sel)
    /\ MapIdle
    /\ TopIdle

Started == first_out[Streaming] # <<>>

(* A run of the script on page pg with widget values s leaves r. *)
Leave(pg, r) ==
       /\ memo' = r.memo
       /\ reads' = [spotify |-> reads.spotify + r.read.spotify,
                    campaign |-> reads.campaign + r.read.campaign]
       /\ page' = pg
       /\ sel' = r.sel
       /\ spotify_df' = r.spotify_df
       /\ campaign_df' = r.campaign_df
       /\ loaded_df' = r.loaded_df
       /\ df' = r.out.df
       /\ kpi' = r.out.kpi
       /\ reached' = r.out.reached
       /\ err' = r.out.err
       /\ charts' = r.out.charts
       /\ first_out' = IF first_out[pg] = <<>>
                          THEN [first_out EXCEPT ![pg] = <<[sel |-> r.sel, out |-> r.out]>>]
                          ELSE first_out
       /\ UNCHANGED <<ver, spotify_csv, campaign_csv, other>>
       /\ UNCHANGED <<mapvars, topvars, local>>

Run(pg, s) == Leave(pg, Script(ver, memo, pg, s))

(* The browser opens the page: the first run, every widget at its default. *)
Start ==
    /\ ~Started
    /\ Run(Streaming, sel)
    /\ UNCHANGED touched

(* The user adds an option to, or removes it from, a multiselect of the     *)
(* page shown. *)
Toggle ==
    /\ Started
    /\ \E key \in Rendered(ver, page) :
         \E x \in Defaults(ver, spotify_df, campaign_df)[key] :
            Run(page, [sel EXCEPT ![key] =
                          IF x \in sel[key] THEN sel[key] \ {x} ELSE sel[key] \cup {x}])
    /\ touched' = TRUE

(* The user picks the other page in the navigation radio. *)
Navigate ==
    /\ Started
    /\ \E p \in Pages(ver) \ {page} : Run(p, sel)
    /\ UNCHANGED touched

(* The user asks for a re-run without touching a widget. *)
Rerun ==
    /\ Started
    /\ Run(page, sel)
    /\ UNCHANGED touched

Next == Start \/ Toggle \/ Navigate \/ Rerun

Spec == Init /\ [][Next]_vars

----------------------------------------------------------------------------
(* Two sessions.  Streamlit runs the script of each browser session in its *)
(* own thread; the sessions of a process share the st.cache_data memo and  *)
(* nothing else.  The first session is the one above; the run of the       *)
(* second is split where it leaves the loaders, so that runs of the first  *)
(* fall between its load and the rest of its script.                       *)

TwoCampaigns == <<CRow("Summer", "EU", "Pop", "Feb", "n/a", "80", "30", "10", "4"),
                  CRow("Winter", "EU", "Rock", "Feb", "100", "95", "-5", "-5", "2")>>

InitSessions ==
    /\ ver \in Versions
    /\ spotify_csv = OneStream
    /\ campaign_csv = TwoCampaigns
    /\ memo = [spotify |-> <<>>, campaign |-> <<>>]
    /\ reads = [spotify |-> 0, campaign |-> 0]
    /\ page = Streaming
    /\ sel = Defaults(ver, read_csv(spotify_csv, StreamCols),
                      CleanUp(ver, read_csv(campaign_csv, CampaignCols)).campaign_df)
    /\ spotify_df = <<>>
    /\ campaign_df = <<>>
    /\ loaded_df = <<>>
    /\ df = <<>>
    /\ kpi = NoKpi
    /\ reached = <<>>
    /\ err = "none"
    /\ charts = NoCharts
    /\ first_out = NoOut
    /\ touched = FALSE
    /\ other = OtherFresh(sel)
    /\ MapIdle
    /\ TopIdle

(* The page and widget values an interaction of the second session starts  *)
(* a run with: the first run, a multiselect changed, the other page, or a  *)
(* plain re-run. *)
OtherTriggers ==
    IF ~other.started THEN { <<Streaming, other.sel>> }
    ELSE { <<other.page, other.sel>> }
         \cup { <<p, other.sel>> : p \in Pages(ver) \ {other.page} }
         \cup UNION { { <<other.page,
                          [other.sel EXCEPT ![key] =
                              IF x \in other.sel[key] THEN other.sel[key] \ {x}
                              ELSE other.sel[key] \cup {x}]>> :
                        x \in Defaults(ver, other.spotify_df, other.campaign_df)[key] } :
                      key \in Rendered(ver, other.page) }

(* The second session's run up to the return of the loaders. *)
OtherLoaded(t, sp, cp) ==
    /\ memo' = [spotify |-> sp.entry, campaign |-> cp.entry]
    /\ reads' = [spotify |-> reads.spotify + sp.read,
                 campaign |-> reads.campaign + cp.read]
    /\ other' = [other EXCEPT !.pc = "loaded", !.page = t[1], !.sel = t[2],
                              !.got = [spotify |-> sp.value, campaign |-> cp.value]]

OtherLoad ==
    /\ other.pc = "idle"
    /\ \E t \in OtherTriggers :
          OtherLoaded(t, cache_data(memo.spotify, spotify_csv, StreamCols),
                      IF ver = "app" THEN [value |-> <<>>, entry |-> memo.campaign, read |-> 0]
                      ELSE cache_data(memo.campaign, campaign_csv, CampaignCols))
    /\ UNCHANGED <<ver, spotify_csv, campaign_csv, page, sel, spotify_df, campaign_df,
                   loaded_df, df, kpi, reached, err, charts, first_out, touched, mapvars, topvars, local>>

(* The rest of the second session's run, on the frames it was handed. *)
OtherLeave(r) ==
    /\ memo' = r.memo
    /\ other' = [other EXCEPT !.pc = "idle", !.started = TRUE, !.sel = r.sel,
                              !.spotify_df = r.spotify_df,
                              !.campaign_df = r.campaign_df, !.out = r.out]

OtherFinish ==
    /\ other.pc = "loaded"
    /\ OtherLeave(ScriptLoaded(ver, other.page, other.sel,
                   [value |-> other.got.spotify, entry |-> memo.spotify, read |-> 0],
                   [value |-> other.got.campaign, entry |-> memo.campaign, read |-> 0]))
    /\ UNCHANGED <<ver, spotify_csv, campaign_csv, reads, page, sel, spotify_df,
                   campaign_df, loaded_df, df, kpi, reached, err, charts, first_out,
                   touched, mapvars, topvars, local>>

NextSessions == Start \/ Toggle \/ Navigate \/ Rerun \/ OtherLoad \/ OtherFinish

SpecSessions == InitSessions /\ [][NextSessions]_vars

----------------------------------------------------------------------------
(* The market signal on its own: the stream column of the map table is any *)
(* column of at most MaxVals totals.                                       *)

StreamTotals == {10, 20, 30, 40}

Columns == UNION { [1..k -> StreamTotals] : k \in 1..MaxVals }

(* No dashboard run is looked at. *)
DashIdle ==
    /\ ver = "v17"
    /\ spotify_csv = <<>>
    /\ campaign_csv = <<>>
    /\ memo = [spotify |-> <<>>, campaign |-> <<>>]
    /\ reads = [spotify |-> 0, campaign |-> 0]
    /\ page = Streaming
    /\ sel = [key \in Keys |-> {}]
    /\ spotify_df = <<>>
    /\ campaign_df = <<>>
    /\ loaded_df = <<>>
    /\ df = <<>>
    /\ kpi = NoKpi
    /\ reached = <<>>
    /\ err = "none"
    /\ charts = NoCharts
    /\ first_out = NoOut
    /\ touched = FALSE
    /\ other = OtherFresh(sel)

InitClassify ==
    /\ DashIdle
    /\ TopIdle
    /\ map_streams \in Columns
    /\ q75 = Ratio(0, 1)
    /\ q40 = Ratio(0, 1)
    /\ market_signal = <<>>
    /\ probe = <<>>

(* The tooltip classification of the map: both quantiles, then a label per *)
(* row. *)
Tooltip ==
    /\ market_signal = <<>>
    /\ q75' = quantile(map_streams, 3, 4)
    /\ q40' = quantile(map_streams, 2, 5)
    /\ market_signal' = ApplyClassify(map_streams, q75', q40')
    /\ UNCHANGED <<map_streams, probe, dashvars, topvars, local>>

(* The values classify is tried on besides the column's own: both          *)
(* quantiles, 32.5 and 22. *)
Probes == {q75, q40, Ratio(65, 2), Ratio(22, 1)}

(* classify applied to one more value under the same q75 and q40. *)
Probe ==
    /\ market_signal # <<>>
    /\ \E x \in Probes : probe' = <<[x |-> x, label |-> classify(x, q75, q40)]>>
    /\ UNCHANGED <<map_streams, q75, q40, market_signal, dashvars, topvars, local>>

NextClassify == Tooltip \/ Probe

SpecClassify == InitClassify /\ [][NextClassify]_vars


----------------------------------------------------------------------------
(* Properties. *)

(* The frame the global filter of the page shown indexes. *)
Source == IF page = Streaming THEN spotify_df ELSE campaign_df

(* The last run applied a global filter (the streaming page of v15 has     *)
(* none). *)
Filtered == Started /\ ~(ver = "v15" /\ page = Streaming)

(* row has, in the column of every rendered multiselect, a selected value. *)
Satisfies(row) == \A key \in Rendered(ver, page) : row[KeyCol[key]] \in sel[key]

IdxOf(T) == { T[i]["idx"].n : i \in 1..Len(T) }

(* C1: the filtered frame holds exactly the rows of the source frame whose *)
(* value in every filtered column is among the values selected for that    *)
(* column: every row of it is a row of the source and satisfies all        *)
(* constraints, no satisfying row of the source is missing, and the rows   *)
(* keep the order of the source, each once.                                *)
C1_FilterExact ==
    Filtered =>
        /\ \A i \in 1..Len(df) : \E j \in 1..Len(Source) : df[i] = Source[j]
        /\ \A i \in 1..Len(df) : Satisfies(df[i])
        /\ \A j \in 1..Len(Source) :
                Satisfies(Source[j]) => \E i \in 1..Len(df) : df[i] = Source[j]
        /\ \A i, j \in 1..Len(df) : i < j => df[i]["idx"].n < df[j]["idx"].n

(* A run whose filter kept one row and removed another, two columns being  *)
(* constrained. *)
C1_Witness ==
    /\ Filtered /\ page = Streaming
    /\ Len(df) = 1 /\ Len(spotify_df) = 2
    /\ sel["region"] # unique(spotify_df, "region")
    /\ sel["month"] # unique(spotify_df, "month")

(* C2: when the selection leaves no row of a non-empty streaming file, the *)
(* Top Artist query ends in a NoDataError. *)
C2_EmptyTopArtistIsNoDataError ==
    (Filtered /\ page = Streaming /\ Len(spotify_df) > 0 /\ Len(df) = 0)
        => err = "NoDataError"

(* C3: whenever the active listeners of the filtered frame add up to 0,    *)
(* the premium share shown is 0. *)
C3_ZeroDenominatorGivesZero ==
    (Filtered /\ page = Streaming /\ kpi.shown /\ kpi.active_listeners = 0)
        => /\ ~kpi.premium_share.nan
           /\ kpi.premium_share.num = 0
           /\ kpi.premium_share.den # 0

(* C4: a run of the streaming page on a non-empty file gets through every  *)
(* section of the page, whatever is selected, and ends without an          *)
(* exception. *)
C4_RunReachesEverySection ==
    (Started /\ page = Streaming /\ Len(spotify_df) > 0)
        => err = "none" /\ reached = Sections(ver, page)

(* What the page shows after the last run. *)
Shown == [df |-> df, kpi |-> kpi, charts |-> charts, reached |-> reached, err |-> err]

(* C5: what a run shows (filtered frame, KPI row, chart tables) depends on *)
(* the widget values and the files only: after any sequence of             *)
(* interactions it is what a new session, with an empty memo, shows for    *)
(* the same page and widget values; and whenever the                       *)
(* widgets are back at the values of the page's first run it is what that  *)
(* first run showed, whatever was selected in between. *)
C5_NoImplicitState ==
    Started =>
        /\ Shown = Script(ver, [spotify |-> <<>>, campaign |-> <<>>], page, sel).out
        /\ (first_out[page] # <<>> /\ sel = first_out[page][1].sel)
              => Shown = first_out[page][1].out

(* The user changed the selection and restored it, and there is something  *)
(* to show. *)
C5_Witness ==
    /\ Started /\ touched /\ page = Streaming
    /\ sel = Defaults(ver, spotify_df, campaign_df)
    /\ Len(df) = 2 /\ kpi.shown

C7_FilterLeavesSource ==
    Filtered =>
        /\ page = Streaming => spotify_df = read_csv(spotify_csv, StreamCols)
        /\ page = Campaign =>
              campaign_df = CleanUp(ver, read_csv(campaign_csv, CampaignCols)).campaign_df

(* The campaign filter of v13 removed a row and kept one. *)
C7_Witness ==
    /\ Filtered /\ ver = "v13" /\ page = Campaign
    /\ Len(df) = 1 /\ Len(campaign_df) = 2

(* C8: when one multiselect of the page has no value selected the filtered *)
(* frame is empty, whatever the others hold, and the filter section is     *)
(* completed. *)
C8_EmptySelectionGivesEmptyFrame ==
    (Filtered /\ \E key \in Rendered(ver, page) : sel[key] = {})
        => df = <<>> /\ reached[1] = "filters"

(* v17 with no region selected, every other multiselect at its default, on *)
(* a non-empty file. *)
C8_Witness ==
    /\ Filtered /\ ver = "v17" /\ page = Streaming
    /\ Len(spotify_df) > 0
    /\ sel["region"] = {}
    /\ sel["month"] = unique(spotify_df, "month")
    /\ sel["subscription"] = unique(spotify_df, "subscription_type")

(* C9: with every multiselect of the page at its default, all distinct     *)
(* values of its column, the filtered frame is the source frame. *)
C9_DefaultsKeepEverything ==
    (Filtered /\ \A key \in Rendered(ver, page) : sel[key] = unique(Source, KeyCol[key]))
        => df = Source

(* app.py at its defaults on a file of two rows of different region and   *)
(* genre. *)
C9_Witness ==
    /\ Filtered /\ ver = "app"
    /\ Len(spotify_df) = 2 /\ df = spotify_df
    /\ \A key \in Rendered(ver, page) : sel[key] = unique(spotify_df, KeyCol[key])
    /\ Cardinality(sel["region"]) = 2
    /\ Cardinality(sel["genre"]) = 2

(* The mask the global filter of the page shown computes on frame T. *)
PageMask(T) ==
    IF page = Streaming THEN StreamMask(ver, T, sel) ELSE CampaignMask(ver, T, sel)

(* C10: filtering the filtered frame again with the same selection gives   *)
(* the filtered frame. *)
C10_FilterIdempotent ==
    Filtered => FilterStmt(df, PageMask(df)).out = df

(* A filtered frame of one row out of two, filtered again. *)
C10_Witness ==
    /\ Filtered /\ ver = "app"
    /\ Len(df) = 1 /\ Len(spotify_df) = 2
    /\ FilterStmt(df, PageMask(df)).out = df

(* The grouped tables the last run computed, and whether it got to them. *)
ChartTables == IF page = Streaming THEN StreamTables(ver) ELSE CampaignTables(ver)

Drawn == Started /\ kpi.shown

(* row has a value in every group column. *)
HasKeys(row, keys) == \A j \in 1..Len(keys) : ~IsNaN(row[keys[j]])

(* C11: every grouped table has one row per combination of key values that *)
(* occurs in the filtered frame (a missing marker is no key value): each   *)
(* result key is the key of some input row, each input row that has its    *)
(* key values finds its key in exactly one result row, and so a two-key    *)
(* table holds no combination that no input row has. *)
C11_OneRowPerKeyPresent ==
    Drawn =>
        \A t \in ChartTables :
            /\ \A r \in 1..Len(charts[t]) :
                  \E i \in 1..Len(df) : KeyOf(df[i], TableKeys[t]) = charts[t][r].key
            /\ \A i \in 1..Len(df) :
                  HasKeys(df[i], TableKeys[t]) =>
                     Cardinality({ r \in 1..Len(charts[t]) :
                                     charts[t][r].key = KeyOf(df[i], TableKeys[t]) }) = 1

(* app.py groups two rows of different region and different genre: two    *)
(* result rows, where the cross product has four. *)
C11_Witness ==
    /\ Drawn /\ ver = "app"
    /\ Len(df) = 2 /\ Len(charts["by_region_genre"]) = 2
    /\ Cardinality(unique(df, "region")) = 2
    /\ Cardinality(unique(df, "genre")) = 2

(* The sum of the reduced column of a grouped table. *)
TotalOf(table) ==
    LET F[i \in 0..Len(table)] == IF i = 0 THEN 0 ELSE F[i - 1] + table[i].value
    IN F[Len(table)]

(* The rows of T that have a value in every column of keys. *)
Contributing(T, keys) == BoolIndex(T, [i \in 1..Len(T) |-> HasKeys(T[i], keys)])

(* C12 as stated: the reduced column of every grouped table adds up to the *)
(* sum of the value column over all rows of the filtered frame. *)
C12_SumOverAllRows ==
    Drawn =>
        \A t \in ChartTables : TotalOf(charts[t]) = Sum(df, TableValue(t))

(* C12: the reduced column of every grouped table adds up to the sum of    *)
(* the value column over the rows of the filtered frame that have a value  *)
(* in every group column; on the streaming page, when no row lacks a group *)
(* value, that is the Total Streams KPI. *)
C12_SumOverContributingRows ==
    Drawn =>
        \A t \in ChartTables :
            /\ TotalOf(charts[t]) = Sum(Contributing(df, TableKeys[t]), TableValue(t))
            /\ (page = Streaming /\ Len(Contributing(df, TableKeys[t])) = Len(df))
                  => TotalOf(charts[t]) = kpi.total_streams

(* A campaign frame of a row with and a row without target_genre, grouped  *)
(* by target_genre. *)
C12_Witness ==
    /\ Drawn /\ page = Campaign /\ "by_target_genre" \in ChartTables
    /\ Len(df) = 2 /\ Len(charts["by_target_genre"]) = 1
    /\ \E i \in 1..2 : IsNaN(df[i]["target_genre"]) /\ IsNum(df[i]["net_user_gain"])

(* The streams of the rows of the filtered frame that name artist a. *)
ArtistTotal(a) == Sum(BoolIndex(df, EqMask(df, "artist_name", a)), "streams")

(* C13: on a non-empty filtered frame the Top Artist card shows an artist  *)
(* of the frame whose stream total no other artist of the frame exceeds. *)
C13_TopArtistIsMaximal ==
    (Filtered /\ page = Streaming /\ Len(df) > 0) =>
        /\ kpi.shown
        /\ kpi.top_artist \in unique(df, "artist_name")
        /\ \A a \in unique(df, "artist_name") :
              ArtistTotal(a) <= ArtistTotal(kpi.top_artist)

(* Two artists with different totals; the one shown has the larger. *)
C13_Witness ==
    /\ Filtered /\ page = Streaming /\ kpi.shown
    /\ Cardinality(unique(df, "artist_name")) = 2
    /\ \E a \in unique(df, "artist_name") : ArtistTotal(a) < ArtistTotal(kpi.top_artist)

(* The scripts that coerce the five campaign columns. *)
Coerces(v) == v \in {"v11", "v13", "v15", "v16"}

(* C14: the coercion gets through without an exception and keeps every    *)
(* row: in each of the five columns a text that denotes a number has       *)
(* become that number and any other text or empty cell is NaN; the other   *)
(* columns are as read. *)
C14_CoercionKeepsRows ==
    (Started /\ Coerces(ver)) =>
        /\ reached # <<>>
        /\ Len(loaded_df) = Len(campaign_csv)
        /\ \A i \in 1..Len(loaded_df) :
              /\ \A c \in num_cols :
                    loaded_df[i][c] =
                        IF IsNumText(campaign_csv[i][c].s)
                            THEN Num(NumText[campaign_csv[i][c].s]) ELSE NaN
              /\ \A c \in CampaignCols \ num_cols :
                    loaded_df[i][c] = read_csv(campaign_csv, CampaignCols)[i][c]

(* One unparseable users_before among two rows: one NaN, one number, two   *)
(* rows. *)
C14_Witness ==
    /\ Started /\ ver = "v11"
    /\ Len(loaded_df) = 2
    /\ Cardinality({ i \in 1..2 : campaign_csv[i]["users_before"].s = "n/a" }) = 1
    /\ Cardinality({ i \in 1..2 : IsNaN(loaded_df[i]["users_before"]) }) = 1
    /\ Cardinality({ i \in 1..2 : IsNum(loaded_df[i]["users_before"]) }) = 1

(* The scripts that drop campaign rows, and the columns the campaign      *)
(* aggregates read. *)
Drops(v) == v \in {"v13", "v15", "v16"}

Required == {"user_growth_pct", "premium_growth_pct", "net_user_gain"}

(* C15: the drop removes a row of the coerced campaign frame exactly when  *)
(* the row has NaN in one of the three columns the aggregates read. *)
C15_DropsOnlyRequiredMissing ==
    (Started /\ Drops(ver)) =>
        \A i \in 1..Len(loaded_df) :
            (loaded_df[i]["idx"].n \in IdxOf(campaign_df))
                <=> (\A c \in Required : ~IsNaN(loaded_df[i][c]))

(* C16: a run of the campaign page is not ended by a text in a numeric    *)
(* column, and every row of the frame its aggregates read has a number in  *)
(* each of the three columns they read. *)
C16_AggregatedRowsAreNumeric ==
    (Started /\ page = Campaign) =>
        /\ err # "TypeError"
        /\ \A i \in 1..Len(df) : \A c \in Required : IsNum(df[i][c])

Abs(n) == IF n < 0 THEN -n ELSE n

(* C17: every size the scatter of the campaign page is handed is the       *)
(* absolute value of the row's net_user_gain plus 10, hence positive. *)
C17_SizeIsMagnitudePlusTen ==
    (Drawn /\ page = Campaign /\ HasScatter(ver)) =>
        /\ Len(charts["sizes"]) = Len(df)
        /\ \A i \in 1..Len(df) :
              /\ IsNum(charts["sizes"][i])
              /\ charts["sizes"][i].n > 0
              /\ IsNum(df[i]["net_user_gain"])
              /\ charts["sizes"][i].n = Abs(df[i]["net_user_gain"].n) + 10

(* The options each multiselect offers (its options and its default are   *)
(* the same unique() call), and the file a multiselect's column is read    *)
(* from, as loaded. *)
OptionsShown == Defaults(ver, spotify_df, campaign_df)

AsLoaded(key) ==
    IF key \in StreamKeys(ver) THEN read_csv(spotify_csv, StreamCols)
    ELSE read_csv(campaign_csv, CampaignCols)

(* C19: the options of every multiselect of the page are the distinct      *)
(* values its column has in the file as loaded. *)
C19_OptionsAreLoadedValues ==
    Started =>
        \A key \in Rendered(ver, page) :
            OptionsShown[key] = unique(AsLoaded(key), KeyCol[key])

(* The labelled values of a state: the rows of the map table and the      *)
(* value tried. *)
Labelled ==
    { [x |-> Ratio(map_streams[i], 1), label |-> market_signal[i]] :
        i \in 1..Len(market_signal) }
    \cup { probe[i] : i \in 1..Len(probe) }

EQ(a, b) == a.num * b.den = b.num * a.den

(* C18: a value is High exactly when it is >= q75, Moderate exactly when   *)
(* it is >= q40 and < q75, Low exactly when it is < q40; for the totals    *)
(* 10, 20, 30, 40 the quantiles are 32.5 and 22, the value 32.5 is High    *)
(* and the value 22 is Moderate. *)
C18_ThreeWayInclusive ==
    market_signal # <<>> =>
        /\ \A l \in Labelled :
              /\ l.label = "High" <=> GE(l.x, q75)
              /\ l.label = "Moderate" <=> (GE(l.x, q40) /\ ~GE(l.x, q75))
              /\ l.label = "Low" <=> ~GE(l.x, q40)
        /\ SortInts(map_streams) = <<10, 20, 30, 40>> =>
              /\ EQ(q75, Ratio(65, 2))
              /\ EQ(q40, Ratio(22, 1))
              /\ \A l \in Labelled :
                    /\ EQ(l.x, Ratio(65, 2)) => l.label = "High"
                    /\ EQ(l.x, Ratio(22, 1)) => l.label = "Moderate"

(* The totals 10, 20, 30, 40 in some order, classified, and 22 tried: the  *)
(* column holds all three labels and 22, on the bound q40, is Moderate. *)
C18_Witness ==
    /\ SortInts(map_streams) = <<10, 20, 30, 40>>
    /\ { market_signal[i] : i \in 1..Len(market_signal) } = {"High", "Moderate", "Low"}
    /\ probe = <<[x |-> Ratio(22, 1), label |-> "Moderate"]>>

EmptyMemo == [spotify |-> <<>>, campaign |-> <<>>]

C21_FilesReadOnce ==
    /\ reads.spotify <= 1 /\ reads.campaign <= 1
    /\ Started =>
          /\ reads.spotify = 1
          /\ memo.spotify = <<read_csv(spotify_csv, StreamCols)>>
          /\ spotify_df = memo.spotify[1]
          /\ ver # "app" =>
                /\ reads.campaign = 1
                /\ memo.campaign = <<read_csv(campaign_csv, CampaignCols)>>
                /\ ~Coerces(ver) => loaded_df = memo.campaign[1]

(* Several runs of app (13).py on both pages, each file read once. *)
C21_Witness ==
    /\ Started /\ touched /\ ver = "v13" /\ page = Campaign
    /\ first_out[Campaign] # <<>>
    /\ reads = [spotify |-> 1, campaign |-> 1]
    /\ Len(spotify_df) > 0 /\ Len(loaded_df) > 0

----------------------------------------------------------------------------
(* The ranking of artists: sort_values("streams", ascending=False).head(N). *)

MaxArtists == 6

ArtistNames == <<"Adele", "Beyonce", "Coldplay", "Drake", "Eminem", "Fergie",
                 "Gorillaz", "Hozier">>

StreamSums == {10, 20, 30}

(* groupby("artist_name").streams.sum().reset_index(): one row per artist,  *)
(* in the sorted order of the names.                                        *)
ArtistSeries ==
    UNION { { [i \in 1..k |-> [artist_name |-> Str(ArtistNames[i]),
                               streams |-> Num(t[i])]] : t \in [1..k -> StreamSums] }
            : k \in 0..MaxArtists }

(* A sort that leaves the rows as they were. *)
sort_values_unsorted(T) == T

(* Where a row goes in rows already in descending order: behind every row  *)
(* that is not smaller.                                                     *)
RECURSIVE InsertDesc(_, _)
InsertDesc(row, T) ==
    IF T = <<>> THEN <<row>>
    ELSE IF Head(T).streams.n >= row.streams.n THEN <<Head(T)>> \o InsertDesc(row, Tail(T))
    ELSE <<row>> \o T

RECURSIVE SortDesc(_, _)
SortDesc(T, acc) ==
    IF T = <<>> THEN acc ELSE SortDesc(Tail(T), InsertDesc(Head(T), acc))

(* sort_values("streams", ascending=False): descending by streams; on the   *)
(* few rows of a grouped table numpy's sort is an insertion sort, so rows   *)
(* with equal streams keep their order.                                     *)
sort_values(T) == SortDesc(T, <<>>)

(* DataFrame.head(n) *)
head(T, n) == SubSeq(T, 1, IF n < Len(T) THEN n ELSE Len(T))

(* The values the limit takes: the slider's 5..15 (5..10 from app (11).py   *)
(* on), which hold the fixed 10 of app.py and the 5 of the drill-down.      *)
Limits == 5..15

InitTopN ==
    /\ DashIdle
    /\ MapIdle
    /\ artist_streams \in ArtistSeries
    /\ artist_limit = 10
    /\ v1 = <<>>
    /\ local = LocalIdle

(* Visual 1 of a run with the slider at n. *)
TopArtists(n) ==
    /\ artist_limit' = n
    /\ v1' = <<head(sort_values(artist_streams), n)>>
    /\ UNCHANGED <<artist_streams, dashvars, mapvars, local>>

(* The first run: the slider at its default. *)
DrawTop ==
    /\ v1 = <<>>
    /\ TopArtists(artist_limit)

(* The user moves the slider. *)
Slide ==
    /\ v1 # <<>>
    /\ \E n \in Limits \ {artist_limit} : TopArtists(n)

NextTopN == DrawTop \/ Slide

SpecTopN == InitTopN /\ [][NextTopN]_vars

----------------------------------------------------------------------------
(* A visual's own filter: a selectbox over the values of the filtered table *)
(* and the rows that carry the value picked.                                *)

(* The versions followed: app.py (selected_genre), app (10).py              *)
(* (selected_region) and app (17).py (map_genre).                           *)
LocalVersions == {"app", "v10", "v17"}

LocalCol(v) == IF v = "v10" THEN "region" ELSE "genre"

(* The streaming rows and one more whose region and genre cells are empty. *)
LocalPool == StreamPool \cup {SRow("", "", "Premium", "Jan", "Adele", "Germany", "100", "5")}

(* sorted(values): Python cannot order a str against the float nan. *)
sorted(S) ==
    IF Cardinality(S) > 1 /\ NaN \in S THEN [raised |-> TRUE, value |-> <<>>]
    ELSE IF S = {NaN} THEN [raised |-> FALSE, value |-> <<NaN>>]
    ELSE [raised |-> FALSE, value |-> Sorted(S)]

(* The options of the selectbox. *)
LocalOptions(v, T) ==
    IF v = "app" THEN [raised |-> FALSE, value |-> UniqueSeq(T, LocalCol(v))]
    ELSE sorted(unique(T, LocalCol(v)))

(* st.selectbox(label, options): None without options; the value picked    *)
(* while the options are the ones it was picked from; the first option for  *)
(* a widget that is new or whose options changed.                           *)
selectbox(widget, options) ==
    IF options = <<>> THEN None
    ELSE IF widget # <<>> /\ widget[1].options = options THEN widget[1].value
    ELSE options[1]

(* The visual from the options on. *)
LocalFrom(v, T, opts, x) ==
    [ran |-> TRUE, widget |-> <<[options |-> opts, value |-> x]>>, value |-> x,
     rows |-> BoolIndex(T, EqMask(T, LocalCol(v), x)), err |-> "none"]

(* The run down to the visual: the KPI row comes first and ends the run on  *)
(* an empty table everywhere but in app.py; a widget the run does not reach *)
(* loses its value.                                                         *)
LocalVisual(v, T, widget) ==
    IF top_artist(v, T).raised
        THEN [ran |-> TRUE, widget |-> <<>>, value |-> None, rows |-> <<>>,
              err |-> "ValueError"]
    ELSE IF LocalOptions(v, T).raised
        THEN [ran |-> TRUE, widget |-> <<>>, value |-> None, rows |-> <<>>,
              err |-> "TypeError"]
    ELSE LocalFrom(v, T, LocalOptions(v, T).value,
                   selectbox(widget, LocalOptions(v, T).value))

InitLocal ==
    /\ ver \in LocalVersions
    /\ spotify_csv \in Files(LocalPool, MaxRows)
    /\ campaign_csv = <<>>
    /\ memo = [spotify |-> <<>>, campaign |-> <<>>]
    /\ reads = [spotify |-> 0, campaign |-> 0]
    /\ page = Streaming
    /\ sel = Defaults(ver, read_csv(spotify_csv, StreamCols), <<>>)
    /\ spotify_df = read_csv(spotify_csv, StreamCols)
    /\ campaign_df = <<>>
    /\ loaded_df = <<>>
    /\ df = <<>>
    /\ kpi = NoKpi
    /\ reached = <<>>
    /\ err = "none"
    /\ charts = NoCharts
    /\ first_out = NoOut
    /\ touched = FALSE
    /\ other = OtherFresh(sel)
    /\ MapIdle
    /\ artist_streams = <<>>
    /\ artist_limit = 10
    /\ v1 = <<>>
    /\ local = LocalIdle

(* A run of the streaming page down to the visual, with the multiselects at *)
(* s and the selectbox as widget says.                                      *)
RunLocal(s, widget) ==
    /\ sel' = s
    /\ df' = FilterStmt(spotify_df, StreamMask(ver, spotify_df, s)).out
    /\ local' = LocalVisual(ver, df', widget)
    /\ UNCHANGED <<ver, spotify_csv, campaign_csv, memo, reads, page, spotify_df,
                   campaign_df, loaded_df, kpi, reached, err, charts, first_out,
                   touched, other>>
    /\ UNCHANGED <<mapvars, topvars>>

(* The first run. *)
ShowLocal ==
    /\ ~local.ran
    /\ RunLocal(sel, <<>>)

(* The user picks another option of the selectbox. *)
PickLocal ==
    /\ local.widget # <<>>
    /\ \E i \in 1..Len(local.widget[1].options) :
          /\ local.widget[1].options[i] # local.value
          /\ RunLocal(sel, <<[options |-> local.widget[1].options,
                              value |-> local.widget[1].options[i]]>>)

(* The user adds an option to, or removes it from, a global multiselect. *)
Refilter ==
    /\ local.ran
    /\ \E key \in StreamKeys(ver) :
          \E x \in unique(spotify_df, KeyCol[key]) :
             RunLocal([sel EXCEPT ![key] =
                          IF x \in sel[key] THEN sel[key] \ {x} ELSE sel[key] \cup {x}],
                      local.widget)

NextLocal == ShowLocal \/ PickLocal \/ Refilter

SpecLocal == InitLocal /\ [][NextLocal]_vars

----------------------------------------------------------------------------
(* Files whose header lacks a column.                                       *)

(* The file without column c. *)
Without(file, c) ==
    [i \in 1..Len(file) |-> [k \in DOMAIN file[i] \ {c} |-> file[i][k]]]

(* The header of a file; cols when the model's file has no row to show it. *)
Header(file, cols) == IF file = <<>> THEN cols ELSE DOMAIN file[1]

(* The columns the statements between the loaders and the header read. *)
CleanUpReads(v) == IF Coerces(v) THEN num_cols ELSE {}

(* The columns of the page's table a section reads, by name. *)
ColumnsRead(v, pg, sec) ==
    IF pg = Streaming
        THEN CASE sec = "info" -> {}
               [] sec = "filters" -> { KeyCol[key] : key \in StreamKeys(v) }
               [] sec = "kpi" -> {"streams", "active_listeners", "artist_name",
                                  "subscription_type"}
               [] sec = "visual1" -> {"artist_name", "streams"}
               [] sec = "visual2" ->
                     CASE v = "v9" -> {"month", "streams"}
                       [] v = "v16" -> {"genre", "country", "streams"}
                       [] v = "v17" -> {"genre", "country", "region", "streams"}
                       [] OTHER -> {"region", "genre", "streams"}
               [] sec = "visual3" ->
                     IF v = "app" THEN {"month", "streams"}
                     ELSE {"subscription_type", "month", "streams"}
               [] sec = "drilldown" -> {"country", "artist_name", "streams"}
               [] sec = "visual4" ->
                     IF v = "app" THEN {"genre", "subscription_type", "streams"}
                     ELSE {"subscription_type", "streams"}
        ELSE CASE sec = "filters" -> { KeyCol[key] : key \in CampaignKeys(v) }
               [] sec = "kpi" -> {"net_user_gain", "user_growth_pct",
                                  "premium_growth_pct"}
               [] sec = "visual1" -> {"campaign_name", "net_user_gain"}
               [] sec = "visual2" ->
                     IF v \in {"v9", "v10", "v11", "v13"}
                         THEN {"month", "campaign_name", "net_user_gain"}
                         ELSE {"campaign_name", "user_growth_pct", "premium_growth_pct"}
               [] sec = "visual3" -> {"target_genre", "net_user_gain"}
               [] sec = "visual4" ->
                     IF v \in {"v10", "v11", "v13"}
                         THEN {"user_growth_pct", "premium_growth_pct",
                               "net_user_gain", "campaign_name"}
                         ELSE {"campaign_name", "premium_growth_pct"}

(* The sections a run gets through on a table with header hdr: those before *)
(* the first that reads a column the header lacks.                          *)
Through(v, pg, hdr) ==
    LET secs == Sections(v, pg)
        bad == { i \in 1..Len(secs) : ~(ColumnsRead(v, pg, secs[i]) \subseteq hdr) }
    IN  IF bad = {} THEN secs
        ELSE SubSeq(secs, 1, (CHOOSE i \in bad : \A j \in bad : i <= j) - 1)

(* One run of the script on page pg over files whose headers are sh and ch: *)
(* the loaders return whatever read_csv found, and a name that is not a     *)
(* column raises where it is first looked up, KeyError for df["x"] and      *)
(* groupby("x") (AttributeError for df.x, reported here under the same      *)
(* label).                                                                  *)
HeaderRun(v, pg, sh, ch) ==
    IF ~(CleanUpReads(v) \subseteq ch)
        THEN [radio |-> FALSE, reached |-> <<>>, err |-> "KeyError"]
        ELSE [radio |-> v # "app",
              reached |-> Through(v, pg, IF pg = Streaming THEN sh ELSE ch),
              err |-> IF Through(v, pg, IF pg = Streaming THEN sh ELSE ch)
                         = Sections(v, pg) THEN "none" ELSE "KeyError"]

(* Both files with one row; one of them lacks one column. *)
InitSchema ==
    /\ ver \in Versions
    /\ \/ \E c \in StreamCols :
             /\ spotify_csv = Without(OneStream, c)
             /\ campaign_csv = IF ver = "app" THEN <<>> ELSE OneCampaign
       \/ \E c \in CampaignCols :
             /\ ver # "app"
             /\ spotify_csv = OneStream
             /\ campaign_csv = Without(OneCampaign, c)
    /\ memo = [spotify |-> <<>>, campaign |-> <<>>]
    /\ reads = [spotify |-> 0, campaign |-> 0]
    /\ page = Streaming
    /\ sel = [key \in Keys |-> {}]
    /\ spotify_df = <<>>
    /\ campaign_df = <<>>
    /\ loaded_df = <<>>
    /\ df = <<>>
    /\ kpi = NoKpi
    /\ reached = <<>>
    /\ err = "none"
    /\ charts = NoCharts
    /\ first_out = NoOut
    /\ touched = FALSE
    /\ other = OtherFresh(sel)
    /\ MapIdle
    /\ TopIdle

(* A run on page pg.  The loaders are the script's first statements: they   *)
(* read the files as they are.  This specification follows how far the run  *)
(* gets, not the tables of the sections it got through.                     *)
RunOnHeaders(pg) ==
    LET sp == cache_data(memo.spotify, spotify_csv, Header(spotify_csv, StreamCols))
        cp == IF ver = "app" THEN [value |-> <<>>, entry |-> memo.campaign, read |-> 0]
              ELSE cache_data(memo.campaign, campaign_csv,
                              Header(campaign_csv, CampaignCols))
        r == HeaderRun(ver, pg, Header(spotify_csv, StreamCols),
                       Header(campaign_csv, CampaignCols))
    IN  /\ memo' = [spotify |-> sp.entry, campaign |-> cp.entry]
        /\ reads' = [spotify |-> reads.spotify + sp.read,
                     campaign |-> reads.campaign + cp.read]
        /\ spotify_df' = sp.value
        /\ loaded_df' = cp.value
        /\ page' = pg
        /\ reached' = r.reached
        /\ err' = r.err
        /\ UNCHANGED <<ver, spotify_csv, campaign_csv, sel, campaign_df, df, kpi,
                       charts, first_out, touched, other>>
        /\ UNCHANGED <<mapvars, topvars, local>>

(* The browser opens the page. *)
Open ==
    /\ reads.spotify = 0
    /\ RunOnHeaders(Streaming)

(* The user picks the other page in the navigation radio, which a run that  *)
(* got past the clean-up has shown. *)
Switch ==
    /\ reads.spotify = 1
    /\ HeaderRun(ver, page, Header(spotify_csv, StreamCols),
                 Header(campaign_csv, CampaignCols)).radio
    /\ \E p \in Pages(ver) \ {page} : RunOnHeaders(p)

NextSchema == Open \/ Switch

SpecSchema == InitSchema /\ [][NextSchema]_vars

(* A file lacks a column of its schema. *)
Incomplete ==
    \/ Header(spotify_csv, StreamCols) # StreamCols
    \/ ver # "app" /\ Header(campaign_csv, CampaignCols) # CampaignCols

(* C22: a run over a file that lacks a required column ends in a schema     *)
(* error raised when the table is loaded, before any section of the page.   *)
C22_MissingColumnIsSchemaErrorAtLoad ==
    (Incomplete /\ reads.spotify > 0) => (err = "SchemaError" /\ reached = <<>>)

(* C23: the top-N table has min(N, number of artists) rows, each an artist  *)
(* of the grouped table with its total and no artist twice, in              *)
(* non-increasing order of the totals, and no artist left out has a larger  *)
(* total than an artist included.                                           *)
C23_TopNIsPrefixOfRanking ==
    v1 # <<>> =>
        LET t == v1[1]
            n == Len(artist_streams)
            In(j) == \E i \in 1..Len(t) : t[i] = artist_streams[j]
        IN  /\ Len(t) = IF artist_limit < n THEN artist_limit ELSE n
            /\ \A i \in 1..Len(t) : \E j \in 1..n : t[i] = artist_streams[j]
            /\ \A i, j \in 1..Len(t) : i # j => t[i].artist_name # t[j].artist_name
            /\ \A i \in 1..(Len(t) - 1) : t[i].streams.n >= t[i + 1].streams.n
            /\ \A j \in 1..n : ~In(j) =>
                  \A i \in 1..Len(t) : artist_streams[j].streams.n <= t[i].streams.n

(* Six artists and a limit of five: the artist left out ties with one kept, *)
(* and the ranking does not start with the first name.                      *)
C23_Witness ==
    /\ v1 # <<>>
    /\ Len(artist_streams) = 6 /\ artist_limit = 5 /\ Len(v1[1]) = 5
    /\ v1[1][1].artist_name # artist_streams[1].artist_name
    /\ v1[1][1].streams.n > v1[1][5].streams.n
    /\ \E j \in 1..6 :
          /\ \A i \in 1..5 : v1[1][i] # artist_streams[j]
          /\ artist_streams[j].streams = v1[1][5].streams

(* C24: after every run of a visual with its own filter, the value picked   *)
(* is a value of the filter's column in the filtered table (no value when   *)
(* the table is empty), the rows behind the visual are rows of the filtered *)
(* table, and there is at least one when the filtered table has a row.      *)
C24_LocalFilterOnlyNarrows ==
    local.ran =>
        /\ IF df = <<>> THEN local.value = None
           ELSE local.value \in unique(df, LocalCol(ver))
        /\ \A i \in 1..Len(local.rows) : \E j \in 1..Len(df) : local.rows[i] = df[j]
        /\ df # <<>> => local.rows # <<>>

(* C25: after every run the campaign table is the clean-up of the table as  *)
(* loaded, the clean-up of that table again is the same table, and in       *)
(* app (13).py every row's abs_user_gain is |net_user_gain| + 10.           *)
C25_CleanUpDoesNotAccumulate ==
    (Started /\ ver # "app") =>
        /\ campaign_df = CleanUp(ver, read_csv(campaign_csv, CampaignCols)).campaign_df
        /\ CleanUp(ver, campaign_df).campaign_df = campaign_df
        /\ ver = "v13" =>
              \A i \in 1..Len(campaign_df) :
                 /\ IsNum(campaign_df[i]["net_user_gain"])
                 /\ campaign_df[i]["abs_user_gain"]
                       = Num(Abs(campaign_df[i]["net_user_gain"].n) + 10)

(* app (13).py after several runs on both pages, over a file with a         *)
(* negative gain and a row the clean-up drops.                              *)
C25_Witness ==
    /\ ver = "v13" /\ Started /\ touched /\ first_out[Campaign] # <<>>
    /\ reads.campaign = 1
    /\ Len(campaign_csv) = 2 /\ Len(campaign_df) = 1
    /\ campaign_df[1]["net_user_gain"] = Num(-5)
    /\ campaign_df[1]["abs_user_gain"] = Num(15)

(* The order of the three labels. *)
BucketRank(label) == CASE label = "High" -> 2 [] label = "Moderate" -> 1 [] OTHER -> 0

(* C26: on every classified non-empty column q40 <= q75, a row with more    *)
(* streams never has a lower label than a row with fewer, every row with    *)
(* the largest total is High, and a column of equal totals is High          *)
(* throughout.                                                              *)
C26_BucketsFollowValues ==
    market_signal # <<>> =>
        LET n == Len(map_streams) IN
        /\ GE(q75, q40)
        /\ \A i, j \in 1..n :
              map_streams[i] >= map_streams[j]
                 => BucketRank(market_signal[i]) >= BucketRank(market_signal[j])
        /\ \A i \in 1..n :
              (\A j \in 1..n : map_streams[j] <= map_streams[i])
                 => market_signal[i] = "High"
        /\ (\A i, j \in 1..n : map_streams[i] = map_streams[j])
              => \A i \in 1..n : market_signal[i] = "High"

(* A classified column of four rows, three totals, one of them twice, with  *)
(* q40 strictly below q75 and both ends of the scale present.               *)
C26_Witness ==
    /\ market_signal # <<>>
    /\ Len(map_streams) = 4
    /\ Cardinality({ map_streams[i] : i \in 1..4 }) = 3
    /\ ~GE(q40, q75)
    /\ \E i, j \in 1..4 : market_signal[i] = "Low" /\ market_signal[j] = "High"

(* The listeners of the Premium rows of the filtered table. *)
PremiumListeners ==
    Sum(BoolIndex(df, EqMask(df, "subscription_type", Str("Premium"))), "active_listeners")

(* C27: the premium share shown is a number between 0 and 100; it is 100    *)
(* exactly when every listener of the filtered table is on a Premium row,   *)
(* and 0 when the filtered table has no Premium row.                        *)
C27_PremiumShareInRange ==
    (Filtered /\ page = Streaming /\ kpi.shown) =>
        /\ ~kpi.premium_share.nan
        /\ kpi.premium_share.den > 0
        /\ 0 <= kpi.premium_share.num
        /\ kpi.premium_share.num <= 100 * kpi.premium_share.den
        /\ (kpi.premium_share.num = 100 * kpi.premium_share.den)
              <=> (kpi.active_listeners > 0 /\ PremiumListeners = kpi.active_listeners)
        /\ (\A i \in 1..Len(df) : df[i]["subscription_type"] # Str("Premium"))
              => kpi.premium_share.num = 0

(* The frame with its rows in the opposite order. *)
Reversed(T) == [i \in 1..Len(T) |-> T[Len(T) + 1 - i]]

(* C28: among the artists that share the largest stream total the Top       *)
(* Artist card shows the first in the sorted order of the names, and the    *)
(* same artist for the same rows in the opposite order.                     *)
C28_TopArtistTieBreak ==
    (Filtered /\ page = Streaming /\ kpi.shown /\ Len(df) > 0) =>
        /\ \A a \in unique(df, "artist_name") :
              ArtistTotal(a) = ArtistTotal(kpi.top_artist)
                 => Rank(kpi.top_artist.s) <= Rank(a.s)
        /\ top_artist(ver, Reversed(df)).value = kpi.top_artist

(* Two artists with the same total, the later name in the first row: the    *)
(* card shows the earlier name.                                             *)
C28_Witness ==
    /\ Filtered /\ page = Streaming /\ kpi.shown /\ touched
    /\ Len(df) = 2
    /\ df[1]["artist_name"] = Str("Drake") /\ df[2]["artist_name"] = Str("Adele")
    /\ ArtistTotal(Str("Drake")) = ArtistTotal(Str("Adele"))
    /\ kpi.top_artist = Str("Adele")

(* What page q shows when the user goes there with the widgets as s and    *)
(* the memo as m.                                                           *)
WouldShow(q, m, s) == Script(ver, m, q, s).out

(* C29: every run goes through sections of the page the radio names and of  *)
(* no other, and a run that stays on its page (a filter of that page was    *)
(* changed) leaves what the other page shows as it was.                     *)
C29_PagesIndependent ==
    /\ [](Started => \E k \in 0..Len(Sections(ver, page)) :
                         reached = SubSeq(Sections(ver, page), 1, k))
    /\ [][ (Started /\ ver # "app" /\ page' = page) =>
              \A q \in Pages(ver) \ {page} :
                  WouldShow(q, memo', sel') = WouldShow(q, memo, sel) ]_vars

====
